---------------------------- MODULE Spec2Model ----------------------------
(***************************************************************************)
(* A model of stock_tui: the application state of src/src/app.rs, the      *)
(* event loop of src/src/main.rs, the window selection of the candlestick  *)
(* chart and its price axis in src/src/ui.rs and the moving average of     *)
(* src/src/models.rs.                                                      *)
(*                                                                         *)
(* Indices are 0-based as in the Rust source; a Vec v is a TLA+ sequence   *)
(* and v[i] of the source is v[i + 1] here.  Option<T> is a sequence of    *)
(* length at most one: None is << >> and Some(x) is << x >>.               *)
(***************************************************************************)
EXTENDS Integers, Sequences, FiniteSets, TLC

VARIABLES
    app,          \* the App struct of app.rs
    term_width,   \* the width of the terminal, read at the top of the loop
    last_event,   \* the event the loop handled last (history)
    prev_cursor,  \* kline_cursor before the last cursor key (history)
    win,          \* window-selection probe: inputs and result
    ma,           \* moving-average probe: inputs and result
    chart,        \* chart-drawing probe: inputs and result
    threads       \* the UI loop, the event thread and the channel between them

vars == <<app, term_width, last_event, prev_cursor, win, ma, chart, threads>>

---------------------------------------------------------------------------
(* Bounds of the model.                                                    *)

\* The longest bar series a fetch answers with.
MaxBars == 12
\* The widest terminal.
MaxWidth == 36

---------------------------------------------------------------------------
(* Option, Result and usize helpers.                                       *)

None == << >>
Some(x) == << x >>
IsSome(o) == o /= << >>
Unwrap(o) == o[1]

Ok(v) == [ok |-> TRUE, val |-> v]
Err == [ok |-> FALSE, val |-> << >>]

Min(a, b) == IF a <= b THEN a ELSE b
Max(a, b) == IF a >= b THEN a ELSE b

\* usize::saturating_sub
saturating_sub(a, b) == IF a >= b THEN a - b ELSE 0

\* Vec::get: Some(v[i]) when i is in range.
Get(v, i) == IF i >= 0 /\ i < Len(v) THEN Some(v[i + 1]) ELSE None

\* Vec::remove(i)
Remove(v, i) == SubSeq(v, 1, i) \o SubSeq(v, i + 2, Len(v))

\* str::starts_with on a sequence of characters
starts_with(s, p) == Len(s) >= Len(p) /\ SubSeq(s, 1, Len(p)) = p

---------------------------------------------------------------------------
(* models.rs: the enumerations.                                            *)

TimeFrame == {"Min5", "Min15", "Min30", "Min60", "Daily", "Weekly", "Monthly"}

\* The timeframe keys the model presses: '1' and '5'.
TimeFrameKeys == {"Min5", "Daily"}

\* TimeFrame::scale
scale(tf) ==
    CASE tf = "Min5" -> 5
      [] tf = "Min15" -> 15
      [] tf = "Min30" -> 30
      [] tf = "Min60" -> 60
      [] tf = "Daily" -> 240
      [] tf = "Weekly" -> 1200
      [] tf = "Monthly" -> 7200

InputMode == {"Normal", "AddStock", "HelpScreen"}
ViewMode == {"Normal", "FullscreenChart"}

---------------------------------------------------------------------------
(* The network, api.rs.  A symbol is a sequence of characters.  What the   *)
(* provider answers is an input of each action that fetches: whether the   *)
(* request succeeds and how many bars it returns.                          *)

SymSh == <<"s", "h">>
SymHk == <<"h", "k">>
SymUs == <<"g", "b", "_">>

\* The texts the model types into the add-stock popup: "hk" is a symbol the
\* program accepts, "h" has no known prefix.
InputTexts == {<< >>, <<"h">>, <<"h", "k">>}
Chars == {"h", "k"}

\* The series lengths a successful fetch returns.
KlineLens == {0, 2, MaxBars}

\* The answers to a K-line request: an error, or a series of `len` bars.
KlineAnswers == {[ok |-> FALSE, len |-> 0]} \cup [ok : {TRUE}, len : KlineLens]

\* One bar of the answer to a request: the request it answers (symbol,
\* scale) and its position in the series, oldest first, stand for the
\* KLineData fields.
Series(symbol, sc, n) == [i \in 1..n |-> [symbol |-> symbol, scale |-> sc, day |-> i]]

\* api::fetch_us_kline(symbol, _scale, _datalen): the request names the
\* symbol only and US_MinKService.getDailyK answers with daily bars.
fetch_us_kline(symbol, sc, ans) ==
    IF ans.ok THEN Ok(Series(symbol, scale("Daily"), ans.len)) ELSE Err

\* api::fetch_kline_data(symbol, scale, 120) when the provider answers `ans`
fetch_kline_data(symbol, sc, ans) ==
    IF starts_with(symbol, <<"g", "b", "_">>)
    THEN fetch_us_kline(symbol, sc, ans)
    ELSE IF starts_with(symbol, <<"h", "k">>)
    THEN Ok(<< >>)
    ELSE IF ans.ok THEN Ok(Series(symbol, sc, ans.len)) ELSE Err

\* api::fetch_realtime_quote(symbol) when the request succeeds or not
fetch_realtime_quote(symbol, ok) ==
    IF ok THEN Ok([symbol |-> symbol]) ELSE Err

\* api::fetch_multiple_quotes(symbols): oks[i] says whether request i succeeds
fetch_multiple_quotes(symbols, oks) ==
    [i \in 1..Len(symbols) |-> fetch_realtime_quote(symbols[i], oks[i])]

QuoteAnswers(symbols) == [1..Len(symbols) -> BOOLEAN]

---------------------------------------------------------------------------
(* app.rs: the methods of App.  Each takes the App value `a` and returns   *)
(* the App value the method leaves.                                        *)

\* App::highlighted_index
highlighted_index(a) == IF IsSome(a.watchlist_state) THEN Unwrap(a.watchlist_state) ELSE 0

\* A refresh_quotes that drops the failed requests instead of storing None.
refresh_quotes_skip_failed(a, oks) ==
    IF a.watchlist = << >>
    THEN [a EXCEPT !.quotes = << >>]
    ELSE LET results == SelectSeq(fetch_multiple_quotes(a.watchlist, oks),
                                  LAMBDA r : r.ok)
         IN [a EXCEPT !.quotes = [i \in 1..Len(results) |-> Some(results[i].val)]]

\* App::refresh_quotes, given the answers to the quote requests
refresh_quotes(a, oks) ==
    IF a.watchlist = << >>
    THEN [a EXCEPT !.quotes = << >>]
    ELSE LET results == fetch_multiple_quotes(a.watchlist, oks)
         IN [a EXCEPT !.quotes =
                [i \in 1..Len(results) |->
                    IF results[i].ok THEN Some(results[i].val) ELSE None]]

\* A refresh_kline that keeps the bars it has when the fetch fails.
refresh_kline_stale(a, ans) ==
    LET symbol == Get(a.watchlist, a.active_index)
    IN IF IsSome(symbol)
       THEN LET r == fetch_kline_data(Unwrap(symbol), scale(a.timeframe), ans)
            IN IF r.ok
               THEN [a EXCEPT !.kline_data = r.val,
                              !.kline_offset = 0,
                              !.kline_cursor = None]
               ELSE a
       ELSE [a EXCEPT !.kline_data = << >>]

\* A refresh_kline that puts the cursor on the first bar of the new series.
refresh_kline_with_cursor(a, ans) ==
    LET symbol == Get(a.watchlist, a.active_index)
    IN IF IsSome(symbol)
       THEN LET r == fetch_kline_data(Unwrap(symbol), scale(a.timeframe), ans)
            IN IF r.ok
               THEN [a EXCEPT !.kline_data = r.val,
                              !.kline_offset = 0,
                              !.kline_cursor = IF r.val = << >> THEN None ELSE Some(0)]
               ELSE [a EXCEPT !.kline_data = << >>]
       ELSE [a EXCEPT !.kline_data = << >>]

\* App::refresh_kline, given the answer to the K-line request
refresh_kline(a, ans) ==
    LET symbol == Get(a.watchlist, a.active_index)
    IN IF IsSome(symbol)
       THEN LET r == fetch_kline_data(Unwrap(symbol), scale(a.timeframe), ans)
            IN IF r.ok
               THEN [a EXCEPT !.kline_data = r.val,
                              !.kline_offset = 0,
                              !.kline_cursor = None]
               ELSE [a EXCEPT !.kline_data = << >>]
       ELSE [a EXCEPT !.kline_data = << >>]

\* App::refresh_all
refresh_all(a, oks, ans) ==
    [refresh_kline(refresh_quotes(a, oks), ans) EXCEPT !.loading = FALSE]

\* App::current_quote
current_quote(a) ==
    LET q == Get(a.quotes, a.active_index)
    IN IF IsSome(q) THEN Unwrap(q) ELSE None

\* App::select_prev
select_prev(a) ==
    LET i == IF IsSome(a.watchlist_state)
             THEN IF Unwrap(a.watchlist_state) = 0
                  THEN Len(a.watchlist) - 1
                  ELSE Unwrap(a.watchlist_state) - 1
             ELSE 0
    IN [a EXCEPT !.watchlist_state = Some(i)]

\* A select_next that steps past the last entry.
select_next_no_wrap(a) ==
    LET i == IF IsSome(a.watchlist_state)
             THEN Unwrap(a.watchlist_state) + 1
             ELSE 0
    IN [a EXCEPT !.watchlist_state = Some(i)]

\* App::select_next
select_next(a) ==
    LET i == IF IsSome(a.watchlist_state)
             THEN IF Unwrap(a.watchlist_state) >= Len(a.watchlist) - 1
                  THEN 0
                  ELSE Unwrap(a.watchlist_state) + 1
             ELSE 0
    IN [a EXCEPT !.watchlist_state = Some(i)]

\* App::toggle_fullscreen
toggle_fullscreen(a) ==
    [a EXCEPT !.view_mode =
        IF a.view_mode = "Normal" THEN "FullscreenChart" ELSE "Normal"]

\* App::on_enter
on_enter(a, ans) ==
    LET highlighted == highlighted_index(a)
    IN IF highlighted /= a.active_index
       THEN refresh_kline([a EXCEPT !.active_index = highlighted], ans)
       ELSE toggle_fullscreen(a)

\* App::set_timeframe
set_timeframe(a, tf, ans) ==
    IF a.timeframe /= tf
    THEN refresh_kline([a EXCEPT !.timeframe = tf], ans)
    ELSE a

\* A scroll_kline_left that pans by one bar.
scroll_kline_left_one_bar(a) ==
    [a EXCEPT !.kline_offset =
                  IF a.kline_offset + 10 < Len(a.kline_data)
                  THEN a.kline_offset + 1
                  ELSE a.kline_offset,
              !.kline_cursor = None]

\* App::scroll_kline_left
scroll_kline_left(a) ==
    [a EXCEPT !.kline_offset =
                  IF a.kline_offset + 10 < Len(a.kline_data)
                  THEN a.kline_offset + 5
                  ELSE a.kline_offset,
              !.kline_cursor = None]

\* App::scroll_kline_right
scroll_kline_right(a) ==
    [a EXCEPT !.kline_offset =
                  IF a.kline_offset >= 5 THEN a.kline_offset - 5 ELSE 0,
              !.kline_cursor = None]

\* App::visible_kline_count
visible_kline_count(a, chart_width) ==
    LET candle_width == 3
        inner_width == saturating_sub(chart_width, 12)
    IN Min(inner_width \div candle_width, Len(a.kline_data))

\* A cursor_left whose first move puts the cursor on the oldest visible bar:
\* the claim about the first move must tell it from cursor_left.
cursor_left_oldest(a, max_visible) ==
    IF IsSome(a.kline_cursor)
    THEN LET pos == Unwrap(a.kline_cursor)
         IN IF pos > 0 THEN [a EXCEPT !.kline_cursor = Some(pos - 1)] ELSE a
    ELSE IF a.kline_data /= << >>
         THEN [a EXCEPT !.kline_cursor = Some(0)]
         ELSE a

\* A cursor_left that subtracts 1 without saturating.
cursor_left_unchecked(a, max_visible) ==
    IF IsSome(a.kline_cursor)
    THEN LET pos == Unwrap(a.kline_cursor)
         IN IF pos > 0 THEN [a EXCEPT !.kline_cursor = Some(pos - 1)] ELSE a
    ELSE IF a.kline_data /= << >>
         THEN LET last == Min(max_visible, Len(a.kline_data)) - 1
              IN [a EXCEPT !.kline_cursor = Some(last)]
         ELSE a

\* App::cursor_left
cursor_left(a, max_visible) ==
    IF IsSome(a.kline_cursor)
    THEN LET pos == Unwrap(a.kline_cursor)
         IN IF pos > 0 THEN [a EXCEPT !.kline_cursor = Some(pos - 1)] ELSE a
    ELSE IF a.kline_data /= << >>
         THEN LET last == saturating_sub(Min(max_visible, Len(a.kline_data)), 1)
              IN [a EXCEPT !.kline_cursor = Some(last)]
         ELSE a

\* App::cursor_right
cursor_right(a, max_visible) ==
    IF IsSome(a.kline_cursor)
    THEN LET pos == Unwrap(a.kline_cursor)
             limit == saturating_sub(Min(max_visible, Len(a.kline_data)), 1)
         IN IF pos < limit THEN [a EXCEPT !.kline_cursor = Some(pos + 1)] ELSE a
    ELSE IF a.kline_data /= << >>
         THEN LET last == saturating_sub(Min(max_visible, Len(a.kline_data)), 1)
              IN [a EXCEPT !.kline_cursor = Some(last)]
         ELSE a

\* App::cursor_kline
cursor_kline(a, chart_width) ==
    IF ~IsSome(a.kline_cursor)
    THEN None
    ELSE LET cursor_pos == Unwrap(a.kline_cursor)
             candle_width == 3
             inner_width == saturating_sub(chart_width, 2)
             visible_count == Min(inner_width \div candle_width, Len(a.kline_data))
             start_idx == IF Len(a.kline_data) > visible_count + a.kline_offset
                          THEN Len(a.kline_data) - visible_count - a.kline_offset
                          ELSE 0
         IN Get(a.kline_data, start_idx + cursor_pos)

\* App::start_add_stock
start_add_stock(a) ==
    [a EXCEPT !.input_mode = "AddStock", !.input_buffer = << >>]

\* char::to_lowercase on the characters of the model
LowerChar(c) == IF c = "H" THEN "h" ELSE IF c = "K" THEN "k" ELSE c

\* str::to_lowercase
to_lowercase(s) == [i \in 1..Len(s) |-> LowerChar(s[i])]

\* str::trim: the text between the first and the last non-blank character
trim(s) ==
    LET nonblank == {i \in 1..Len(s) : s[i] /= " "}
    IN IF nonblank = {}
       THEN << >>
       ELSE SubSeq(s, CHOOSE i \in nonblank : \A j \in nonblank : i <= j,
                      CHOOSE i \in nonblank : \A j \in nonblank : i >= j)

\* Vec::contains
contains(v, x) == \E i \in 1..Len(v) : v[i] = x

\* The symbol confirm_add_stock checks: the buffer trimmed and lowered, a
\* leading "us" replaced by "gb_"
add_symbol(a) ==
    LET symbol == to_lowercase(trim(a.input_buffer))
    IN IF starts_with(symbol, <<"u", "s">>)
       THEN <<"g", "b", "_">> \o SubSeq(symbol, 3, Len(symbol))
       ELSE symbol

\* The format check of confirm_add_stock: sh, sz, bj, hk, gb_
known_prefix(symbol) ==
    \/ starts_with(symbol, <<"s", "h">>)
    \/ starts_with(symbol, <<"s", "z">>)
    \/ starts_with(symbol, <<"b", "j">>)
    \/ starts_with(symbol, <<"h", "k">>)
    \/ starts_with(symbol, <<"g", "b", "_">>)

\* App::save_config: the watchlist is written to the configuration file
save_config(a) == [a EXCEPT !.saved = a.watchlist]

\* A confirm_add_stock without the check for a symbol already listed.
confirm_add_stock_twice(a, ok) ==
    LET symbol == add_symbol(a)
    IN IF symbol = << >>
       THEN [a EXCEPT !.input_mode = "Normal"]
       ELSE IF ~known_prefix(symbol)
       THEN [a EXCEPT !.input_mode = "Normal"]
       ELSE LET pushed == [a EXCEPT !.watchlist = Append(a.watchlist, symbol),
                                    !.quotes = Append(a.quotes, None)]
                r == fetch_realtime_quote(symbol, ok)
                idx == Len(pushed.quotes) - 1
                quoted == IF r.ok
                          THEN [pushed EXCEPT !.quotes[idx + 1] = Some(r.val)]
                          ELSE pushed
            IN [save_config(quoted) EXCEPT !.input_mode = "Normal"]

\* App::confirm_add_stock, given whether the quote request succeeds
confirm_add_stock(a, ok) ==
    LET symbol == add_symbol(a)
    IN IF symbol = << >>
       THEN [a EXCEPT !.input_mode = "Normal"]
       ELSE IF ~known_prefix(symbol)
       THEN [a EXCEPT !.input_mode = "Normal"]
       ELSE IF contains(a.watchlist, symbol)
       THEN [a EXCEPT !.input_mode = "Normal"]
       ELSE LET pushed == [a EXCEPT !.watchlist = Append(a.watchlist, symbol),
                                    !.quotes = Append(a.quotes, None)]
                r == fetch_realtime_quote(symbol, ok)
                idx == Len(pushed.quotes) - 1
                quoted == IF r.ok
                          THEN [pushed EXCEPT !.quotes[idx + 1] = Some(r.val)]
                          ELSE pushed
            IN [save_config(quoted) EXCEPT !.input_mode = "Normal"]

\* App::cancel_input
cancel_input(a) ==
    [a EXCEPT !.input_mode = "Normal", !.input_buffer = << >>]

\* A delete_selected that lets the last entry go.
delete_selected_to_empty(a, ans) ==
    IF Len(a.watchlist) < 1
    THEN a
    ELSE LET idx == highlighted_index(a)
             removed == [a EXCEPT !.watchlist = Remove(a.watchlist, idx),
                                  !.quotes = Remove(a.quotes, idx)]
             selected == [removed EXCEPT !.watchlist_state =
                             IF idx >= Len(removed.watchlist)
                             THEN Some(Len(removed.watchlist) - 1)
                             ELSE Some(idx)]
             activated == [selected EXCEPT !.active_index = highlighted_index(selected)]
         IN refresh_kline(save_config(activated), ans)

\* App::delete_selected, given the answer to the K-line request
delete_selected(a, ans) ==
    IF Len(a.watchlist) <= 1
    THEN a
    ELSE LET idx == highlighted_index(a)
             removed == [a EXCEPT !.watchlist = Remove(a.watchlist, idx),
                                  !.quotes = Remove(a.quotes, idx)]
             selected == [removed EXCEPT !.watchlist_state =
                             IF idx >= Len(removed.watchlist)
                             THEN Some(Len(removed.watchlist) - 1)
                             ELSE Some(idx)]
             activated == [selected EXCEPT !.active_index = highlighted_index(selected)]
         IN refresh_kline(save_config(activated), ans)

\* App::new, given the configuration file and the answers of the provider
new(config, oks, ans) ==
    refresh_all([should_quit |-> FALSE,
                 watchlist |-> config,
                 watchlist_state |-> IF config /= << >> THEN Some(0) ELSE None,
                 active_index |-> 0,
                 quotes |-> [i \in 1..Len(config) |-> None],
                 kline_data |-> << >>,
                 timeframe |-> "Daily",
                 input_mode |-> "Normal",
                 view_mode |-> "Normal",
                 input_buffer |-> << >>,
                 kline_offset |-> 0,
                 kline_cursor |-> None,
                 loading |-> TRUE,
                 saved |-> config],
                oks, ans)

---------------------------------------------------------------------------
(* ui.rs: the window the chart draws.                                      *)

\* A window selection that subtracts without the guard on start, and one that
\* pans towards the newest bar: the claims about the window must tell them
\* from select_window.
select_window_unguarded(series_len, chart_width, pan_offset) ==
    LET candle_width == 3
        visible_count == Min(chart_width \div candle_width, series_len)
        start_idx == series_len - visible_count - pan_offset
        end_idx == Min(start_idx + visible_count, series_len)
    IN [visible_count |-> visible_count, start_idx |-> start_idx, end_idx |-> end_idx]

select_window_reversed(series_len, chart_width, pan_offset) ==
    LET candle_width == 3
        visible_count == Min(chart_width \div candle_width, series_len)
        start_idx == Min(series_len - visible_count, pan_offset)
        end_idx == Min(start_idx + visible_count, series_len)
    IN [visible_count |-> visible_count, start_idx |-> start_idx, end_idx |-> end_idx]

\* draw_kline_chart, window selection (ui.rs 323-334): the bars of a series of
\* series_len bars drawn on chart_width columns at pan offset pan_offset.
select_window(series_len, chart_width, pan_offset) ==
    LET candle_width == 3
        visible_count == Min(chart_width \div candle_width, series_len)
        start_idx == IF series_len > visible_count + pan_offset
                     THEN series_len - visible_count - pan_offset
                     ELSE 0
        end_idx == Min(start_idx + visible_count, series_len)
    IN [visible_count |-> visible_count, start_idx |-> start_idx, end_idx |-> end_idx]

\* draw_kline_chart: the window drawn in an area `area_width` columns wide
\* (ui.rs 281-296): the border takes 2 columns and the price axis 10.
draw_window(a, area_width) ==
    LET inner_width == saturating_sub(area_width, 2)
        price_axis_width == 10
        chart_width == saturating_sub(inner_width, price_axis_width)
    IN select_window(Len(a.kline_data), chart_width, a.kline_offset)

\* draw_kline_chart draws candles: the series is not empty and the inner
\* area is at least 15 columns wide (ui.rs 269-290, 336-338).
chart_drawn(a, area_width) ==
    /\ a.kline_data /= << >>
    /\ saturating_sub(area_width, 2) >= 15
    /\ draw_window(a, area_width).end_idx > draw_window(a, area_width).start_idx

\* draw_fullscreen_status: the bar described in the status line, which is
\* as wide as the terminal.
status_bar_kline(a, area_width) == cursor_kline(a, area_width)

---------------------------------------------------------------------------
(* f64.  A finite f64 is (-1)^neg * mant * 2^exp: mant is the binary       *)
(* numeral of an odd natural number, most significant bit first, of at     *)
(* most 53 bits, and the empty sequence for zero.  Every operation is the  *)
(* exact result rounded to 53 significant bits, ties to even, as IEEE 754  *)
(* binary64 does; the exponents of the model stay far from overflow and    *)
(* underflow.                                                              *)

\* The significand of an f64 holds 53 bits.
MantissaBits == 53

Zero == [neg |-> FALSE, exp |-> 0, mant |-> << >>]

Zeros(n) == [i \in 1..n |-> 0]

MinOf(S) == CHOOSE x \in S : \A y \in S : x <= y
MaxOf(S) == CHOOSE x \in S : \A y \in S : x >= y

\* The binary numeral `bits` without its leading zeros.
TrimLeading(bits) ==
    LET ones == {i \in 1..Len(bits) : bits[i] = 1}
    IN IF ones = {} THEN << >> ELSE SubSeq(bits, MinOf(ones), Len(bits))

\* The f64 of value (-1)^neg * bits * 2^exp, for a numeral of at most 53
\* significant bits: trailing zeros of the numeral move into the exponent.
Canon(neg, bits, exp) ==
    LET ones == {i \in 1..Len(bits) : bits[i] = 1}
    IN IF ones = {}
       THEN Zero
       ELSE [neg |-> neg,
             exp |-> exp + (Len(bits) - MaxOf(ones)),
             mant |-> SubSeq(bits, MinOf(ones), MaxOf(ones))]

\* The numeral `bits` extended with leading zeros to n bits.
PadLeft(bits, n) == Zeros(n - Len(bits)) \o bits

\* a + b + carry on numerals of equal length: the sum's bits, as many as a
\* has, and the carry out.  The lower half is added first and its carry
\* goes into the upper half.
RECURSIVE AddBits(_, _, _)
AddBits(a, b, carry) ==
    IF Len(a) = 0
    THEN [bits |-> << >>, carry |-> carry]
    ELSE IF Len(a) = 1
    THEN LET t == a[1] + b[1] + carry
         IN [bits |-> <<t % 2>>, carry |-> t \div 2]
    ELSE LET h == Len(a) \div 2
             lo == AddBits(SubSeq(a, h + 1, Len(a)), SubSeq(b, h + 1, Len(a)), carry)
             hi == IF lo.carry = 1
                   THEN AddBits(SubSeq(a, 1, h), SubSeq(b, 1, h), 1)
                   ELSE AddBits(SubSeq(a, 1, h), SubSeq(b, 1, h), 0)
         IN [bits |-> hi.bits \o lo.bits, carry |-> hi.carry]

\* a + b on numerals
AddNat(a, b) ==
    LET n == Max(Len(a), Len(b))
        r == AddBits(PadLeft(a, n), PadLeft(b, n), 0)
    IN IF r.carry = 1 THEN <<1>> \o r.bits ELSE r.bits

\* a - b - borrow on numerals of equal length: the difference's bits and
\* the borrow out.
RECURSIVE SubBits(_, _, _)
SubBits(a, b, borrow) ==
    IF Len(a) = 0
    THEN [bits |-> << >>, borrow |-> borrow]
    ELSE IF Len(a) = 1
    THEN LET t == a[1] - b[1] - borrow
         IN IF t < 0
            THEN [bits |-> <<t + 2>>, borrow |-> 1]
            ELSE [bits |-> <<t>>, borrow |-> 0]
    ELSE LET h == Len(a) \div 2
             lo == SubBits(SubSeq(a, h + 1, Len(a)), SubSeq(b, h + 1, Len(a)), borrow)
             hi == IF lo.borrow = 1
                   THEN SubBits(SubSeq(a, 1, h), SubSeq(b, 1, h), 1)
                   ELSE SubBits(SubSeq(a, 1, h), SubSeq(b, 1, h), 0)
         IN [bits |-> hi.bits \o lo.bits, borrow |-> hi.borrow]

\* a - b on numerals, for a >= b
SubNat(a, b) == TrimLeading(SubBits(a, PadLeft(b, Len(a)), 0).bits)

\* a < b on numerals without leading zeros
LessNat(a, b) ==
    \/ Len(a) < Len(b)
    \/ /\ Len(a) = Len(b)
       /\ \E i \in 1..Len(a) :
             /\ a[i] < b[i]
             /\ \A j \in 1..(i - 1) : a[j] = b[j]

\* Round to nearest, ties to even: the f64 nearest to
\* (-1)^neg * (bits + f) * 2^exp, where 0 <= f < 1 and sticky says f > 0.
Round(neg, bits, exp, sticky) ==
    LET n == Len(bits)
    IN IF n <= MantissaBits
       THEN Canon(neg, bits, exp)
       ELSE LET keep == SubSeq(bits, 1, MantissaBits)
                guard == bits[MantissaBits + 1]
                rest == sticky \/ \E i \in (MantissaBits + 2)..n : bits[i] = 1
                up == guard = 1 /\ (rest \/ keep[MantissaBits] = 1)
            IN Canon(neg, IF up THEN AddNat(keep, <<1>>) ELSE keep,
                     exp + (n - MantissaBits))

\* x + y in f64
FAdd(x, y) ==
    IF x.mant = << >> THEN y
    ELSE IF y.mant = << >> THEN x
    ELSE LET e == Min(x.exp, y.exp)
             xs == x.mant \o Zeros(x.exp - e)
             ys == y.mant \o Zeros(y.exp - e)
         IN IF x.neg = y.neg
            THEN Round(x.neg, AddNat(xs, ys), e, FALSE)
            ELSE IF xs = ys THEN Zero
            ELSE IF LessNat(ys, xs)
            THEN Round(x.neg, SubNat(xs, ys), e, FALSE)
            ELSE Round(y.neg, SubNat(ys, xs), e, FALSE)

\* x - y in f64
FSub(u, v) ==
    IF v.mant = << >> THEN u ELSE FAdd(u, [neg |-> ~v.neg, exp |-> v.exp, mant |-> v.mant])

\* Long division of the numeral `bits` by the positive integer d, entered
\* with the remainder rem < d of the bits before it: the quotient's bits, as
\* many as `bits` has, and the remainder.  The upper half is divided first
\* and its remainder goes into the lower half.
RECURSIVE DivBits(_, _, _)
DivBits(bits, d, rem) ==
    IF Len(bits) = 0
    THEN [quot |-> << >>, rem |-> rem]
    ELSE IF Len(bits) = 1
    THEN LET t == 2 * rem + bits[1]
         IN [quot |-> <<t \div d>>, rem |-> t % d]
    ELSE LET h == Len(bits) \div 2
             hi == DivBits(SubSeq(bits, 1, h), d, rem)
             lo == DivBits(SubSeq(bits, h + 1, Len(bits)), d, hi.rem)
         IN [quot |-> hi.quot \o lo.quot, rem |-> lo.rem]

\* The dividend of a division is extended to this many bits, so that the
\* quotient by an integer below 2^10 has a 53-bit significand and a guard bit.
DividendBits == 64

\* x / (n as f64) in f64, for an integer 1 <= n < 2^10, which is an f64.
FDivInt(x, n) ==
    IF x.mant = << >>
    THEN Zero
    ELSE LET pad == DividendBits - Len(x.mant)
             dividend == x.mant \o Zeros(pad)
             d == DivBits(dividend, n, 0)
         IN Round(x.neg, TrimLeading(d.quot), x.exp - pad, d.rem /= 0)

\* |x| < |y|: the place of the leading bit decides, and between numbers
\* with the same leading place the aligned numerals.
MagLess(x, y) ==
    IF y.mant = << >> THEN FALSE
    ELSE IF x.mant = << >> THEN TRUE
    ELSE LET tx == x.exp + Len(x.mant)
             ty == y.exp + Len(y.mant)
             e == Min(x.exp, y.exp)
         IN IF tx /= ty
            THEN tx < ty
            ELSE LessNat(x.mant \o Zeros(x.exp - e), y.mant \o Zeros(y.exp - e))

\* x < y in f64 (the model has one zero, and no NaN)
FLess(x, y) ==
    IF x.neg /= y.neg THEN x.neg
    ELSE IF x.neg THEN MagLess(y, x)
    ELSE MagLess(x, y)

\* f64::min and f64::max
f64_min(x, y) == IF FLess(y, x) THEN y ELSE x
f64_max(x, y) == IF FLess(x, y) THEN y ELSE x

\* a * b on numerals: the product by the upper half of b, shifted, plus the
\* product by the lower half.
RECURSIVE MulNat(_, _)
MulNat(a, b) ==
    IF Len(b) = 0
    THEN << >>
    ELSE IF Len(b) = 1
    THEN IF b[1] = 1 THEN a ELSE << >>
    ELSE LET h == Len(b) \div 2
             hi == MulNat(a, SubSeq(b, 1, h))
             lo == MulNat(a, SubSeq(b, h + 1, Len(b)))
         IN IF hi = << >>
            THEN lo
            ELSE AddNat(hi \o Zeros(Len(b) - h), lo)

\* x * y in f64
FMul(x, y) ==
    IF x.mant = << >> \/ y.mant = << >>
    THEN Zero
    ELSE LET product == IF Len(x.mant) < Len(y.mant)
                        THEN MulNat(y.mant, x.mant)
                        ELSE MulNat(x.mant, y.mant)
         IN Round(x.neg /= y.neg, product, x.exp + y.exp, FALSE)

\* The binary numeral of the natural number n.
RECURSIVE NatBits(_)
NatBits(n) == IF n = 0 THEN << >> ELSE Append(NatBits(n \div 2), n % 2)

\* `n as f64` for a u16 or a small usize n: exact.
FromInt(n) == Canon(FALSE, NatBits(n), 0)

\* f64::MAX = (2^53 - 1) * 2^971 and f64::MIN = -f64::MAX
F64_MAX == [neg |-> FALSE, exp |-> 971, mant |-> [i \in 1..MantissaBits |-> 1]]
F64_MIN == [neg |-> TRUE, exp |-> 971, mant |-> [i \in 1..MantissaBits |-> 1]]

\* The literals 1.0 and 0.05: 0.05 is the f64 0x1.999999999999ap-5.
One == [neg |-> FALSE, exp |-> 0, mant |-> <<1>>]
Margin005 ==
    [neg |-> FALSE, exp |-> -56,
     mant |-> <<1, 1, 0, 0, 1, 1, 0, 0, 1, 1, 0, 0, 1, 1, 0, 0, 1, 1, 0, 0, 1, 1, 0, 0, 1, 1, 0,
                 0, 1, 1, 0, 0, 1, 1, 0, 0, 1, 1, 0, 0, 1, 1, 0, 0, 1, 1, 0, 0, 1, 1, 0, 1>>]

\* str::parse::<f64>().unwrap_or(0.0) on the close texts of the model: the
\* f64 nearest to the decimal, and 0.0 for a text that is no number.
parse_f64(text) ==
    CASE text = "abc" -> Zero
      [] text = "10" ->
    [neg |-> FALSE, exp |-> 1,
     mant |-> <<1, 0, 1>>]
      [] text = "20" ->
    [neg |-> FALSE, exp |-> 2,
     mant |-> <<1, 0, 1>>]
      [] text = "30" ->
    [neg |-> FALSE, exp |-> 1,
     mant |-> <<1, 1, 1, 1>>]
      [] text = "40" ->
    [neg |-> FALSE, exp |-> 3,
     mant |-> <<1, 0, 1>>]
      [] text = "100" ->
    [neg |-> FALSE, exp |-> 2,
     mant |-> <<1, 1, 0, 0, 1>>]
      [] text = "50" ->
    [neg |-> FALSE, exp |-> 1,
     mant |-> <<1, 1, 0, 0, 1>>]
      [] text = "10.01" ->
    [neg |-> FALSE, exp |-> -49,
     mant |-> <<1, 0, 1, 0, 0, 0, 0, 0, 0, 0, 1, 0, 1, 0, 0, 0, 1, 1, 1, 1, 0, 1, 0, 1, 1, 1, 0,
                 0, 0, 0, 1, 0, 1, 0, 0, 0, 1, 1, 1, 1, 0, 1, 0, 1, 1, 1, 0, 0, 0, 0, 1, 0, 1>>]
      [] text = "10.02" ->
    [neg |-> FALSE, exp |-> -48,
     mant |-> <<1, 0, 1, 0, 0, 0, 0, 0, 0, 1, 0, 1, 0, 0, 0, 1, 1, 1, 1, 0, 1, 0, 1, 1, 1, 0, 0,
                 0, 0, 1, 0, 1, 0, 0, 0, 1, 1, 1, 1, 0, 1, 0, 1, 1, 1, 0, 0, 0, 0, 1, 0, 1>>]
      [] text = "10.03" ->
    [neg |-> FALSE, exp |-> -49,
     mant |-> <<1, 0, 1, 0, 0, 0, 0, 0, 0, 1, 1, 1, 1, 0, 1, 0, 1, 1, 1, 0, 0, 0, 0, 1, 0, 1, 0,
                 0, 0, 1, 1, 1, 1, 0, 1, 0, 1, 1, 1, 0, 0, 0, 0, 1, 0, 1, 0, 0, 0, 1, 1, 1, 1>>]

\* The close fields of the bars the model feeds calculate_ma.
CloseTexts == {"abc", "10.01", "10.02", "10.03"}

\* KLineData::close_f64, low_f64 and high_f64
close_f64(bar) == parse_f64(bar.close)
low_f64(bar) == parse_f64(bar.low)
high_f64(bar) == parse_f64(bar.high)

---------------------------------------------------------------------------
(* models.rs: calculate_ma.                                                *)

\* i >= window - 1 on usize (models.rs 195), where the subtraction did not
\* panic: 0 - 1 wraps to usize::MAX, which no index of a slice reaches.
reaches_window(i, window) == IF window = 0 THEN FALSE ELSE i >= window - 1

\* calculate_ma whose first average comes one bar late.
RECURSIVE ma_loop_late(_, _, _)
ma_loop_late(data, window, i) ==
    IF i = 0
    THEN [sum |-> Zero, ma |-> << >>]
    ELSE LET before == ma_loop_late(data, window, i - 1)
             k == i - 1
             added == FAdd(before.sum, close_f64(data[k + 1]))
             sum == IF k >= window
                    THEN FSub(added, close_f64(data[k - window + 1]))
                    ELSE added
         IN [sum |-> sum,
             ma |-> Append(before.ma,
                           IF k >= window
                           THEN Some(FDivInt(sum, window))
                           ELSE None)]

\* The state of the loop of calculate_ma after the bars 0..i-1.
RECURSIVE ma_loop(_, _, _)
ma_loop(data, window, i) ==
    IF i = 0
    THEN [sum |-> Zero, ma |-> << >>]
    ELSE LET before == ma_loop(data, window, i - 1)
             k == i - 1
             added == FAdd(before.sum, close_f64(data[k + 1]))
             sum == IF k >= window
                    THEN FSub(added, close_f64(data[k - window + 1]))
                    ELSE added
         IN [sum |-> sum,
             ma |-> Append(before.ma,
                           IF reaches_window(k, window)
                           THEN Some(FDivInt(sum, window))
                           ELSE None)]

\* calculate_ma(data, window), where no subtraction panics
calculate_ma(data, window) == ma_loop(data, window, Len(data)).ma

\* `window - 1` (models.rs 195) is evaluated in every pass of the loop.  A
\* build with overflow checks (the dev profile) panics on 0 - 1, "attempt to
\* subtract with overflow"; a build without them (the release profile) wraps.
ma_panics(data, window, overflow_checks) ==
    overflow_checks /\ window = 0 /\ Len(data) > 0

---------------------------------------------------------------------------
(* ui.rs: draw_kline_chart, the price range, the grid and the price axis.  *)
(* A bar carries the texts of its low, high and close.                     *)

\* ma.get(global_idx).and_then(|&v| v)
ma_get(ma_line, global_idx) ==
    IF global_idx < Len(ma_line) THEN ma_line[global_idx + 1] ELSE None

\* min_price.min(v) and max_price.max(v) for an average that is there
with_ma(range, v) ==
    IF IsSome(v)
    THEN [min |-> f64_min(range.min, Unwrap(v)), max |-> f64_max(range.max, Unwrap(v))]
    ELSE range

\* The price range after the first n visible bars (ui.rs 341-361).
RECURSIVE raw_range(_, _, _, _, _, _)
raw_range(data, ma5, ma10, ma20, start_idx, n) ==
    IF n = 0
    THEN [min |-> F64_MAX, max |-> F64_MIN]
    ELSE LET before == raw_range(data, ma5, ma10, ma20, start_idx, n - 1)
             i == n - 1
             k == data[start_idx + i + 1]
             global_idx == start_idx + i
             bar == [min |-> f64_min(before.min, low_f64(k)),
                     max |-> f64_max(before.max, high_f64(k))]
         IN with_ma(with_ma(with_ma(bar, ma_get(ma5, global_idx)),
                            ma_get(ma10, global_idx)),
                    ma_get(ma20, global_idx))

\* The margin of 5% on both sides of the range (ui.rs 363-367).
scale_axis(raw) ==
    LET price_range == FSub(raw.max, raw.min)
        margin == FMul(price_range, Margin005)
        min_price == FSub(raw.min, margin)
        max_price == FAdd(raw.max, margin)
    IN [min_price |-> min_price, max_price |-> max_price,
        final_range |-> FSub(max_price, min_price)]

\* Row i of the chart carries a grid line and a price label (ui.rs 370-374,
\* 528).
is_grid_row(chart_height, i) ==
    LET num_grid_lines == Max(Min(chart_height, 6), 2)
        grid_step == chart_height \div Max(num_grid_lines, 1)
    IN grid_step = 0 \/ i % grid_step = 0 \/ i = chart_height - 1

\* The price of row i (ui.rs 375-376, 526-527).
row_price(axis, chart_height, i) ==
    LET ratio == FSub(One, FDivInt(FromInt(i), Max(saturating_sub(chart_height, 1), 1)))
    IN FAdd(axis.min_price, FMul(axis.final_range, ratio))

\* grid_prices after the rows 0..n-1 (ui.rs 372-378).
RECURSIVE grid_loop(_, _, _)
grid_loop(axis, chart_height, n) ==
    IF n = 0
    THEN << >>
    ELSE LET before == grid_loop(axis, chart_height, n - 1)
             i == n - 1
         IN IF is_grid_row(chart_height, i)
            THEN Append(before, row_price(axis, chart_height, i))
            ELSE before

\* The lines of the price axis, top row first: the price of the row, and
\* whether the line prints it (ui.rs 524-536).
price_lines(axis, chart_height) ==
    [r \in 1..chart_height |->
        [price_val |-> row_price(axis, chart_height, r - 1),
         labelled |-> is_grid_row(chart_height, r - 1)]]

\* What draw_kline_chart puts on the area `area` for the App value `a`:
\* nothing but the frame, or the window, the axis, the grid and the labels.
draw_kline_chart(a, area) ==
    LET inner_width == saturating_sub(area.width, 2)
        inner_height == saturating_sub(area.height, 2)
        date_axis_height == 1
        chart_height == saturating_sub(inner_height, date_axis_height)
        w == draw_window(a, area.width)
        ma5 == calculate_ma(a.kline_data, 5)
        ma10 == calculate_ma(a.kline_data, 10)
        ma20 == calculate_ma(a.kline_data, 20)
        raw == raw_range(a.kline_data, ma5, ma10, ma20, w.start_idx,
                         w.end_idx - w.start_idx)
        axis == scale_axis(raw)
    IN IF \/ a.kline_data = << >>
          \/ inner_width < 15 \/ inner_height < 5
          \/ w.end_idx <= w.start_idx
       THEN [drawn |-> FALSE]
       ELSE [drawn |-> TRUE,
             start_idx |-> w.start_idx,
             end_idx |-> w.end_idx,
             ma5 |-> ma5, ma10 |-> ma10, ma20 |-> ma20,
             raw_min |-> raw.min,
             raw_max |-> raw.max,
             min_price |-> axis.min_price,
             max_price |-> axis.max_price,
             final_range |-> axis.final_range,
             chart_height |-> chart_height,
             grid_prices |-> grid_loop(axis, chart_height, chart_height),
             price_lines |-> price_lines(axis, chart_height)]

---------------------------------------------------------------------------
(* main.rs: the event loop.  One action per event the loop handles; the    *)
(* frame is drawn from the state between two events.  A pass of the loop   *)
(* reads the width once (main.rs 40) and the terminal keeps that width     *)
(* while the pass draws the frame and handles its event: a change of width *)
(* is the Resize event of a later pass.                                    *)

\* The terminal widths of the model: too narrow for a candle, narrow, wide.
Widths == {13, 21, MaxWidth}

\* The configuration file App::new loads.
InitConfig == <<SymSh, SymHk>>

WinIdle == [pc |-> "idle"]
MaIdle == [pc |-> "idle"]
ChartIdle == [pc |-> "idle"]
ThreadsIdle == [ui_pc |-> "idle"]

Init ==
    /\ \E oks \in QuoteAnswers(InitConfig), ans \in KlineAnswers :
           app = new(InitConfig, oks, ans)
    /\ term_width \in Widths
    /\ last_event = "Init"
    /\ prev_cursor = None
    /\ win = WinIdle
    /\ ma = MaIdle
    /\ chart = ChartIdle
    /\ threads = ThreadsIdle

\* The loop runs until should_quit is set (main.rs 187-189).
Running == ~app.should_quit

\* The loop handles event `ev` and leaves the App value `a`.
Handle(ev, a) ==
    /\ app' = a
    /\ last_event' = ev
    /\ prev_cursor' = IF ev \in {"Left", "Right"} THEN app.kline_cursor ELSE None
    /\ UNCHANGED <<term_width, win, ma, chart, threads>>

NormalKey == Running /\ app.input_mode = "Normal"
AddStockKey == Running /\ app.input_mode = "AddStock"
HelpScreenKey == Running /\ app.input_mode = "HelpScreen"

\* 'q' and Ctrl-C
KeyQuit == NormalKey /\ Handle("Quit", [app EXCEPT !.should_quit = TRUE])

\* An Esc that leaves the fullscreen view before it looks at the cursor.
KeyEscFullscreenFirst ==
    /\ NormalKey
    /\ Handle("Esc",
              IF app.view_mode = "FullscreenChart"
              THEN toggle_fullscreen(app)
              ELSE IF IsSome(app.kline_cursor)
              THEN [app EXCEPT !.kline_cursor = None]
              ELSE [app EXCEPT !.should_quit = TRUE])

KeyEsc ==
    /\ NormalKey
    /\ Handle("Esc",
              IF IsSome(app.kline_cursor)
              THEN [app EXCEPT !.kline_cursor = None]
              ELSE IF app.view_mode = "FullscreenChart"
              THEN toggle_fullscreen(app)
              ELSE [app EXCEPT !.should_quit = TRUE])

KeyF == NormalKey /\ Handle("F", toggle_fullscreen(app))

KeyEnter ==
    /\ NormalKey
    /\ \E ans \in KlineAnswers : Handle("Enter", on_enter(app, ans))

KeyUp ==
    /\ NormalKey
    /\ Handle("Up", IF app.view_mode = "Normal" THEN select_prev(app) ELSE app)

KeyDown ==
    /\ NormalKey
    /\ Handle("Down", IF app.view_mode = "Normal" THEN select_next(app) ELSE app)

KeyLeft ==
    /\ NormalKey
    /\ LET visible == visible_kline_count(app, term_width)
       IN Handle("Left", cursor_left(app, visible))

KeyRight ==
    /\ NormalKey
    /\ LET visible == visible_kline_count(app, term_width)
       IN Handle("Right", cursor_right(app, visible))

KeyPageUp == NormalKey /\ Handle("PageUp", scroll_kline_left(app))

KeyPageDown == NormalKey /\ Handle("PageDown", scroll_kline_right(app))

KeyA == NormalKey /\ Handle("A", start_add_stock(app))

KeyD ==
    /\ NormalKey
    /\ \E ans \in KlineAnswers :
           Handle("D", IF app.view_mode = "Normal" THEN delete_selected(app, ans) ELSE app)

KeyR ==
    /\ NormalKey
    /\ \E oks \in QuoteAnswers(app.watchlist), ans \in KlineAnswers :
           Handle("R", refresh_all(app, oks, ans))

KeyTimeframe ==
    /\ NormalKey
    /\ \E tf \in TimeFrameKeys, ans \in KlineAnswers :
           Handle("Timeframe", set_timeframe(app, tf, ans))

KeyHelp == NormalKey /\ Handle("Help", [app EXCEPT !.input_mode = "HelpScreen"])

AddEnter ==
    /\ AddStockKey
    /\ \E ok \in BOOLEAN : Handle("AddEnter", confirm_add_stock(app, ok))

AddEsc == AddStockKey /\ Handle("AddEsc", cancel_input(app))

\* String::pop
AddBackspace ==
    /\ AddStockKey
    /\ Handle("AddBackspace",
              [app EXCEPT !.input_buffer =
                  SubSeq(app.input_buffer, 1, saturating_sub(Len(app.input_buffer), 1))])

\* String::push, for the texts of the model
AddChar ==
    /\ AddStockKey
    /\ \E c \in Chars :
           /\ Append(app.input_buffer, c) \in InputTexts
           /\ Handle("AddChar", [app EXCEPT !.input_buffer = Append(app.input_buffer, c)])

\* Esc, '?' and 'q' close the help screen
HelpClose == HelpScreenKey /\ Handle("HelpClose", [app EXCEPT !.input_mode = "Normal"])

HelpTimeframe ==
    /\ HelpScreenKey
    /\ \E tf \in TimeFrameKeys, ans \in KlineAnswers :
           Handle("HelpTimeframe",
                  [set_timeframe(app, tf, ans) EXCEPT !.input_mode = "Normal"])

\* A Tick that refreshes the series too.
TickRefreshesAll ==
    /\ Running
    /\ \E oks \in QuoteAnswers(app.watchlist), ans \in KlineAnswers :
           Handle("Tick", refresh_all(app, oks, ans))

\* AppEvent::Tick, in every input mode
Tick ==
    /\ Running
    /\ \E oks \in QuoteAnswers(app.watchlist) : Handle("Tick", refresh_quotes(app, oks))

\* AppEvent::Resize: the handler does nothing; the next pass of the loop
\* reads the new width.
Resize ==
    /\ Running
    /\ \E w \in Widths \ {term_width} : term_width' = w
    /\ last_event' = "Resize"
    /\ prev_cursor' = None
    /\ UNCHANGED <<app, win, ma, chart, threads>>

Next ==
    \/ KeyQuit \/ KeyEsc \/ KeyF \/ KeyEnter \/ KeyUp \/ KeyDown
    \/ KeyLeft \/ KeyRight \/ KeyPageUp \/ KeyPageDown
    \/ KeyA \/ KeyD \/ KeyR \/ KeyTimeframe \/ KeyHelp
    \/ AddEnter \/ AddEsc \/ AddBackspace \/ AddChar
    \/ HelpClose \/ HelpTimeframe
    \/ Tick \/ Resize

Spec == Init /\ [][Next]_vars

\* The program started on a configuration file that lists a US symbol.
UsConfig == <<SymUs, SymHk>>

InitUs ==
    /\ \E oks \in QuoteAnswers(UsConfig), ans \in KlineAnswers :
           app = new(UsConfig, oks, ans)
    /\ term_width \in Widths
    /\ last_event = "Init"
    /\ prev_cursor = None
    /\ win = WinIdle
    /\ ma = MaIdle
    /\ chart = ChartIdle
    /\ threads = ThreadsIdle

SpecUs == InitUs /\ [][Next]_vars

---------------------------------------------------------------------------
(* The window selection as a pure function: every series length, chart     *)
(* width and pan offset up to the bounds.                                  *)

MaxSeriesLen == 12
MaxChartWidth == 20
MaxPan == 14

\* The App the pure-function specifications leave untouched.
IdleApp == new(InitConfig, [i \in 1..Len(InitConfig) |-> FALSE], [ok |-> FALSE, len |-> 0])

InitWindow ==
    /\ win \in [pc : {"in"}, series_len : 0..MaxSeriesLen,
                chart_width : 0..MaxChartWidth, pan_offset : 0..MaxPan]
    /\ app = IdleApp
    /\ term_width = MaxWidth
    /\ last_event = "Init"
    /\ prev_cursor = None
    /\ ma = MaIdle
    /\ chart = ChartIdle
    /\ threads = ThreadsIdle

\* One call of the window selection.
SelectWindow ==
    /\ win.pc = "in"
    /\ win' = [pc |-> "out", series_len |-> win.series_len,
               chart_width |-> win.chart_width, pan_offset |-> win.pan_offset,
               window |-> select_window(win.series_len, win.chart_width,
                                        win.pan_offset)]
    /\ UNCHANGED <<app, term_width, last_event, prev_cursor, ma, chart, threads>>

NextWindow == SelectWindow

SpecWindow == InitWindow /\ [][NextWindow]_vars

---------------------------------------------------------------------------
(* calculate_ma as a pure function: every series of at most MaxSeries bars *)
(* with closes among CloseTexts, every window size from 0 to MaxWindow,    *)
(* and a build with or without overflow checks.                            *)

MaxSeries == 4
MaxWindow == 5

\* The series of bars with the closes `closes`.
Bars(closes) == [i \in 1..Len(closes) |-> [day |-> i, close |-> closes[i]]]

\* The series of tests::test_calculate_ma.
TestPrices == <<"10", "20", "30", "40", "50">>

CloseSeries ==
    {TestPrices} \cup UNION {[1..n -> CloseTexts] : n \in 0..MaxSeries}

InitMA ==
    /\ ma \in [pc : {"in"}, data : {Bars(c) : c \in CloseSeries},
               window : 0..MaxWindow, overflow_checks : BOOLEAN]
    /\ app = IdleApp
    /\ term_width = MaxWidth
    /\ last_event = "Init"
    /\ prev_cursor = None
    /\ win = WinIdle
    /\ chart = ChartIdle
    /\ threads = ThreadsIdle

\* One call of calculate_ma: it returns the averages or panics.
ComputeMA ==
    /\ ma.pc = "in"
    /\ ma' = IF ma_panics(ma.data, ma.window, ma.overflow_checks)
             THEN [pc |-> "panic", data |-> ma.data, window |-> ma.window,
                   overflow_checks |-> ma.overflow_checks]
             ELSE [pc |-> "out", data |-> ma.data, window |-> ma.window,
                   overflow_checks |-> ma.overflow_checks,
                   out |-> calculate_ma(ma.data, ma.window)]
    /\ UNCHANGED <<app, term_width, last_event, prev_cursor, win, chart, threads>>

NextMA == ComputeMA

SpecMA == InitMA /\ [][NextMA]_vars

---------------------------------------------------------------------------
(* draw_kline_chart as a pure function of the series, the pan offset and   *)
(* the area the layout gives the chart.  The provider's texts are taken as *)
(* they come: a bar's low may exceed its high, and a text may be no number.*)

\* The tallest area of the chart.  The border takes 2 rows and the date
\* axis 1: an area of 7 rows is the lowest that is drawn.
MaxAreaHeight == 11

\* Too narrow to draw, and wide enough for 2 candles.
AreaWidths == {14, 20}

PriceTexts == {"abc", "10", "10.02", "30", "100"}

ChartBar(low, high, close) == [day |-> 1, low |-> low, high |-> high, close |-> close]

\* The series of the model: every single bar, pairs of bars, six bars whose
\* closes lie above their highs, and twenty bars that give all three
\* averages a value.
ChartSeries ==
    LET SixBars == [i \in 1..6 |-> ChartBar("10", "10.02", "50")]
        TwentyBars ==
            [i \in 1..20 |-> ChartBar("10", "30", IF i % 2 = 0 THEN "10.01" ELSE "40")]
    IN {<<ChartBar(l, h, "10")>> : l \in PriceTexts, h \in PriceTexts}
       \cup {<<ChartBar("10.02", "30", "10"), ChartBar(l, l, "10")>> : l \in PriceTexts}
       \cup {SixBars, TwentyBars}

InitChart ==
    /\ chart \in [pc : {"in"}, kline_data : ChartSeries, kline_offset : {0, 1},
                  area : [width : AreaWidths, height : 6..MaxAreaHeight]]
    /\ app = IdleApp
    /\ term_width = MaxWidth
    /\ last_event = "Init"
    /\ prev_cursor = None
    /\ win = WinIdle
    /\ ma = MaIdle
    /\ threads = ThreadsIdle

\* One call of draw_kline_chart.
DrawChart ==
    /\ chart.pc = "in"
    /\ chart' = [pc |-> "out", kline_data |-> chart.kline_data,
                 kline_offset |-> chart.kline_offset, area |-> chart.area,
                 out |-> draw_kline_chart([kline_data |-> chart.kline_data,
                                           kline_offset |-> chart.kline_offset],
                                          chart.area)]
    /\ UNCHANGED <<app, term_width, last_event, prev_cursor, win, ma, threads>>

SpecChart == InitChart /\ [][DrawChart]_vars

---------------------------------------------------------------------------
(* The two threads: the loop of main (main.rs 38-190) and the thread that  *)
(* EventHandler::new spawns (event.rs 30-51), with the channel between     *)
(* them.  The loop's pass is cut where the other thread can run in         *)
(* between: the render pass begins and ends, events.next() returns, the    *)
(* handler runs, and a handler that asks the provider waits for the        *)
(* answer.  threads.frame holds what the render pass in progress read of   *)
(* the series, the pan offset, the cursor and the timeframe, and           *)
(* threads.applied counts the events applied since the last render.        *)

\* The events in the channel before the loop takes one (the channel of the
\* program has no bound).
QueueCap == 1

\* What the event thread sends: key presses 'q', Left, PageUp, '1' and 'r',
\* a key event that is no press, Tick and Resize.
ThreadEvents == {"Quit", "Left", "PageUp", "Min5", "R", "Release", "Tick", "Resize"}

\* The four fields of App a frame shows.
Snapshot(a) ==
    [kline_data |-> a.kline_data, kline_offset |-> a.kline_offset,
     kline_cursor |-> a.kline_cursor, timeframe |-> a.timeframe]

\* The match on the event (main.rs 46-185), in InputMode::Normal, given the
\* width read at the top of the pass and the answers of the provider.
apply_event(a, ev, width, oks, ans) ==
    CASE ev = "Quit" -> [a EXCEPT !.should_quit = TRUE]
      [] ev = "Left" -> cursor_left(a, visible_kline_count(a, width))
      [] ev = "PageUp" -> scroll_kline_left(a)
      [] ev = "Min5" -> set_timeframe(a, "Min5", ans)
      [] ev = "R" -> refresh_all(a, oks, ans)
      [] ev = "Tick" -> refresh_quotes(a, oks)
      [] OTHER -> a

\* The handler of `ev` sends a request to the provider: refresh_quotes and
\* refresh_all always (the watchlist is not empty), set_timeframe when the
\* timeframe changes and the active symbol is no HK symbol.
needs_fetch(a, ev) ==
    \/ ev \in {"R", "Tick"}
    \/ /\ ev = "Min5"
       /\ a.timeframe /= "Min5"
       /\ ~starts_with(a.watchlist[a.active_index + 1], <<"h", "k">>)

InitThreads ==
    /\ \E oks \in QuoteAnswers(InitConfig), ans \in KlineAnswers :
           app = new(InitConfig, oks, ans)
    /\ term_width \in {21, MaxWidth}
    /\ threads = [ui_pc |-> "top", width |-> 0, event |-> "none", frame |-> None,
                  applied |-> 0, queue |-> << >>]
    /\ last_event = "Init"
    /\ prev_cursor = None
    /\ win = WinIdle
    /\ ma = MaIdle
    /\ chart = ChartIdle

\* An event thread that answers the timeout by fetching the bars itself
\* and storing them in the App, instead of sending Tick.
WorkerRefreshes ==
    /\ threads.ui_pc \notin {"idle", "exited"}
    /\ \E ans \in KlineAnswers : app' = refresh_kline(app, ans)
    /\ UNCHANGED <<term_width, threads, last_event, prev_cursor, win, ma, chart>>

\* One pass of the event thread's loop (event.rs 31-50): a key or a resize
\* has arrived, or the poll has timed out, and the event is sent.  A
\* resize is the terminal taking another width.
WorkerSend ==
    /\ threads.ui_pc \notin {"idle", "exited"}
    /\ Len(threads.queue) < QueueCap
    /\ \E ev \in ThreadEvents :
           /\ threads' = [threads EXCEPT !.queue = Append(threads.queue, ev)]
           /\ term_width' = IF ev = "Resize"
                             THEN CHOOSE w \in {21, MaxWidth} : w /= term_width
                             ELSE term_width
    /\ UNCHANGED <<app, last_event, prev_cursor, win, ma, chart>>

\* The top of the loop: terminal.size() is read and the render pass begins
\* (main.rs 40-43).
UiDrawBegin ==
    /\ threads.ui_pc = "top"
    /\ threads' = [threads EXCEPT !.ui_pc = "draw", !.width = term_width,
                                  !.frame = Some(Snapshot(app)), !.applied = 0]
    /\ UNCHANGED <<app, term_width, last_event, prev_cursor, win, ma, chart>>

\* The render pass ends and the loop waits in events.next() (main.rs 43-46).
UiDrawEnd ==
    /\ threads.ui_pc = "draw"
    /\ threads' = [threads EXCEPT !.ui_pc = "recv"]
    /\ UNCHANGED <<app, term_width, last_event, prev_cursor, win, ma, chart>>

\* events.next() returns the oldest event of the channel (event.rs 57-60).
UiRecv ==
    /\ threads.ui_pc = "recv"
    /\ threads.queue /= << >>
    /\ threads' = [threads EXCEPT !.ui_pc = "handle", !.event = Head(threads.queue),
                                  !.queue = Tail(threads.queue)]
    /\ UNCHANGED <<app, term_width, last_event, prev_cursor, win, ma, chart>>

\* The handler of an event that asks the provider nothing runs, and the
\* loop goes to its next pass or leaves (main.rs 46-190).  A key event
\* that is no press goes to the next pass at once (main.rs 48-50).
UiApply ==
    /\ threads.ui_pc = "handle"
    /\ ~needs_fetch(app, threads.event)
    /\ LET a == apply_event(app, threads.event, threads.width,
                            [i \in 1..Len(app.watchlist) |-> FALSE],
                            [ok |-> FALSE, len |-> 0])
       IN /\ app' = a
          /\ threads' = [threads EXCEPT
                 !.ui_pc = IF a.should_quit THEN "exited" ELSE "top",
                 !.event = "none", !.frame = None,
                 !.applied = IF threads.event = "Release" THEN @ ELSE @ + 1]
    /\ UNCHANGED <<term_width, last_event, prev_cursor, win, ma, chart>>

\* The handler calls the provider: reqwest::blocking sends the request on
\* the thread of the loop, which waits for the answer (api.rs 14-30,
\* 125-149).
UiFetchStart ==
    /\ threads.ui_pc = "handle"
    /\ needs_fetch(app, threads.event)
    /\ threads' = [threads EXCEPT !.ui_pc = "fetch"]
    /\ UNCHANGED <<app, term_width, last_event, prev_cursor, win, ma, chart>>

\* The answers arrive, the handler finishes and the loop goes to its next
\* pass.
UiFetchDone ==
    /\ threads.ui_pc = "fetch"
    /\ \E oks \in QuoteAnswers(app.watchlist), ans \in KlineAnswers :
           app' = apply_event(app, threads.event, threads.width, oks, ans)
    /\ threads' = [threads EXCEPT !.ui_pc = "top", !.event = "none", !.frame = None,
                                  !.applied = @ + 1]
    /\ UNCHANGED <<term_width, last_event, prev_cursor, win, ma, chart>>

NextThreads ==
    \/ WorkerSend
    \/ UiDrawBegin \/ UiDrawEnd \/ UiRecv \/ UiApply \/ UiFetchStart \/ UiFetchDone

SpecThreads == InitThreads /\ [][NextThreads]_vars

---------------------------------------------------------------------------
(* The claims of the specification about the cursor and the window, stated *)
(* on the event loop (Spec).                                               *)

\* The window the chart draws in the current state.
Drawn == draw_window(app, term_width)

\* C1: in every reachable state an active cursor lies inside the drawn
\* window: kline_cursor = Some(pos) implies 0 <= pos < visible_count.
C1_CursorInsideWindow ==
    IsSome(app.kline_cursor) =>
        /\ 0 <= Unwrap(app.kline_cursor)
        /\ Unwrap(app.kline_cursor) < Drawn.visible_count

\* The step is an event that recomputes the window: a pan, a resize, a
\* manual refresh, a timeframe switch, or a switch of the active symbol by
\* Enter or by a delete.
WindowRecomputed ==
    \/ last_event' \in {"PageUp", "PageDown", "Resize", "R"}
    \/ /\ last_event' \in {"Timeframe", "HelpTimeframe"}
       /\ app'.timeframe /= app.timeframe
    \/ /\ last_event' = "Enter"
       /\ app'.active_index /= app.active_index
    \/ /\ last_event' = "D"
       /\ Len(app'.watchlist) < Len(app.watchlist)

\* C2: every window-recomputing event leaves the cursor Inactive, for every
\* outcome of the fetch it triggers.
C2_RecomputeDeactivatesCursor ==
    [][WindowRecomputed => app'.kline_cursor = None]_vars

\* C3: with the cursor on a bar of the drawn window, the bar cursor_kline
\* returns for the status line is the bar at start + pos of that window, the
\* one the chart highlights.
C3_CursorKlineIsHighlightedBar ==
    ( /\ app.view_mode = "FullscreenChart"
      /\ chart_drawn(app, term_width)
      /\ IsSome(app.kline_cursor)
      /\ Unwrap(app.kline_cursor) < Drawn.visible_count )
    => status_bar_kline(app, term_width)
           = Get(app.kline_data, Drawn.start_idx + Unwrap(app.kline_cursor))

\* C5: when the series is longer than one window, the right edge of the
\* drawn window is kline_offset bars before the newest bar.
C5_RightEdgeAtOffset ==
    Len(app.kline_data) > Drawn.visible_count =>
        Drawn.end_idx = Len(app.kline_data) - app.kline_offset

\* C6: the stored pan offset leaves one whole window of bars:
\* kline_offset + visible_count <= series length, and kline_offset = 0 when
\* the series fits in one window.
C6_OffsetLeavesAWindow ==
    IF Len(app.kline_data) > Drawn.visible_count
    THEN app.kline_offset + Drawn.visible_count <= Len(app.kline_data)
    ELSE app.kline_offset = 0

\* C8: the first CursorLeft or CursorRight from the Inactive cursor, with
\* the chart drawing a non-empty window, puts the cursor on the newest
\* visible bar, visible_count - 1.
C8_FirstMoveOnNewestBar ==
    ( /\ last_event \in {"Left", "Right"}
      /\ prev_cursor = None
      /\ chart_drawn(app, term_width) )
    => app.kline_cursor = Some(Drawn.visible_count - 1)

\* A first CursorLeft has activated the cursor on a window of several bars.
C8_Witness ==
    /\ last_event = "Left"
    /\ prev_cursor = None
    /\ chart_drawn(app, term_width)
    /\ Drawn.visible_count >= 3
    /\ app.kline_cursor = Some(Drawn.visible_count - 1)

\* C9: from Active(pos), CursorLeft gives Active(max(pos - 1, 0)) and
\* CursorRight gives Active(min(pos + 1, visible_count - 1)).
C9_MoveClamped ==
    /\ (last_event = "Left" /\ IsSome(prev_cursor)) =>
           app.kline_cursor = Some(Max(Unwrap(prev_cursor) - 1, 0))
    /\ (last_event = "Right" /\ IsSome(prev_cursor)) =>
           app.kline_cursor =
               Some(Min(Unwrap(prev_cursor) + 1, Drawn.visible_count - 1))

---------------------------------------------------------------------------
(* The claims about the window selection, stated on SpecWindow.            *)

\* C4: for every series length L, chart width and pan offset the selected
\* window satisfies 0 <= start <= end <= L and end - start <= visible_count,
\* with visible_count = min(width / 3, L).
C4_WindowInsideSeries ==
    win.pc = "out" =>
        /\ win.window.visible_count = Min(win.chart_width \div 3, win.series_len)
        /\ 0 <= win.window.start_idx
        /\ win.window.start_idx <= win.window.end_idx
        /\ win.window.end_idx <= win.series_len
        /\ win.window.end_idx - win.window.start_idx <= win.window.visible_count

\* A panned window of several bars that starts after the oldest bar.
C4_Witness ==
    /\ win.pc = "out"
    /\ win.pan_offset > 0
    /\ win.window.start_idx > 0
    /\ win.window.end_idx - win.window.start_idx >= 2

\* C7: for a fixed series length and chart width the window is monotone in
\* the pan offset: for P1 <= P2, start(P2) <= start(P1) and
\* end(P2) <= end(P1); a start of 0 stays 0 for every larger offset; and
\* end(P) <= end(0).
C7_WindowMonotoneInPan ==
    win.pc = "out" =>
        \A p1 \in 0..win.pan_offset :
            LET w1 == select_window(win.series_len, win.chart_width, p1)
                w2 == select_window(win.series_len, win.chart_width, win.pan_offset)
                w0 == select_window(win.series_len, win.chart_width, 0)
            IN /\ w2 = win.window
               /\ w2.start_idx <= w1.start_idx
               /\ w2.end_idx <= w1.end_idx
               /\ (w1.start_idx = 0 => w2.start_idx = 0)
               /\ w2.end_idx <= w0.end_idx

\* A pan that has moved both edges of the window towards the oldest bar
\* without reaching it.
C7_Witness ==
    /\ win.pc = "out"
    /\ win.pan_offset > 0
    /\ win.window.start_idx > 0
    /\ win.window.start_idx
           < select_window(win.series_len, win.chart_width, 0).start_idx
    /\ win.window.end_idx
           < select_window(win.series_len, win.chart_width, 0).end_idx

---------------------------------------------------------------------------
(* The claim about calculate_ma, stated on SpecMA.                         *)

\* The closes of the bars lo..hi (1-based) of `data` summed from 0.0, bar by
\* bar.
RECURSIVE DirectSum(_, _, _)
DirectSum(data, lo, hi) ==
    IF hi < lo
    THEN Zero
    ELSE FAdd(DirectSum(data, lo, hi - 1), close_f64(data[hi]))

\* C10: calculate_ma(series, w) has len(series) elements; element i is None
\* for i < w - 1 and otherwise the sum of the closes of the bars i-w+1..i
\* divided by w, the value that summing the window directly gives.
C10_RunningSumIsWindowMean ==
    (ma.pc = "out" /\ ma.window >= 1) =>
        /\ Len(ma.out) = Len(ma.data)
        /\ \A k \in 1..Len(ma.data) :
              LET i == k - 1
              IN ma.out[k] =
                     IF i < ma.window - 1
                     THEN None
                     ELSE Some(FDivInt(DirectSum(ma.data, k - ma.window + 1, k),
                                       ma.window))

\* The number of Some values of a sequence of Option values.
SomeCount(out) == Cardinality({k \in 1..Len(out) : IsSome(out[k])})

\* C11: for a window size w >= 1, calculate_ma(series, w) has len(series)
\* elements, of which exactly len(series) - w + 1 are Some when
\* len(series) >= w and none is Some otherwise: w > len(series) gives all
\* None and an empty series gives an empty result.
C11_SomeCount ==
    (ma.pc = "out" /\ ma.window >= 1) =>
        /\ Len(ma.out) = Len(ma.data)
        /\ SomeCount(ma.out) = IF Len(ma.data) >= ma.window
                               THEN Len(ma.data) - ma.window + 1
                               ELSE 0

\* calculate_ma has returned both None and Some values, more than one Some.
C11_Witness ==
    /\ ma.pc = "out"
    /\ ma.window >= 2
    /\ Len(ma.data) > ma.window
    /\ SomeCount(ma.out) = Len(ma.data) - ma.window + 1

\* C12: calculate_ma with window 0, on an empty series or not, returns
\* with every element None (the code has no way to reject): it never
\* panics on an arithmetic underflow or a division by zero.
C12_ZeroWindowAllNone ==
    (ma.pc /= "in" /\ ma.window = 0) =>
        /\ ma.pc = "out"
        /\ \A k \in 1..Len(ma.out) : ma.out[k] = None

---------------------------------------------------------------------------
(* The claims about the bar series, stated on Spec.                        *)

\* C17: from every state the program reaches, and for every answer of the
\* provider, refresh_kline leaves exactly the fetched series when the fetch
\* succeeds and no bar when it fails or when no symbol is active: no bar of
\* the series it found remains.
C17_RefreshReplacesSeries ==
    \A ans \in KlineAnswers, idx \in {app.active_index, Len(app.watchlist)} :
        LET a == [app EXCEPT !.active_index = idx]
            symbol == Get(a.watchlist, idx)
            fetched == fetch_kline_data(Unwrap(symbol), scale(a.timeframe), ans)
        IN refresh_kline(a, ans).kline_data =
               IF IsSome(symbol) /\ fetched.ok THEN fetched.val ELSE << >>

\* A refresh has replaced the daily bars by 5-minute bars, and a failing
\* refresh of this state leaves none of them.
C17_Witness ==
    /\ last_event = "Timeframe"
    /\ app.timeframe = "Min5"
    /\ app.kline_data = Series(SymSh, scale("Min5"), MaxBars)
    /\ refresh_kline(app, [ok |-> FALSE, len |-> 0]).kline_data = << >>

\* C18: in every state, a series that is not empty is the series fetched
\* for the active symbol, watchlist[active_index], at the current
\* timeframe: no bar of another symbol or timeframe is on display.  Stated
\* on SpecUs, where the watchlist holds a US symbol.
C18_SeriesOfActiveSymbol ==
    app.kline_data /= << >> =>
        /\ IsSome(Get(app.watchlist, app.active_index))
        /\ app.kline_data = Series(app.watchlist[app.active_index + 1],
                                   scale(app.timeframe), Len(app.kline_data))

---------------------------------------------------------------------------
(* The claims about the price axis and the grid, stated on SpecChart.      *)

\* x <= y in f64
FLeq(x, y) == ~FLess(y, x)

\* draw_kline_chart has drawn candles.
ChartOut == chart.pc = "out" /\ chart.out.drawn

\* C13: for every non-empty visible window, whatever the order of a bar's
\* prices, min_price <= max_price, and the low and the high of every visible
\* bar and every MA5, MA10 and MA20 value at a visible index lie within
\* [min_price, max_price].
C13_AxisHoldsWindow ==
    ChartOut =>
        LET c == chart.out
            inside(v) == FLeq(c.min_price, v) /\ FLeq(v, c.max_price)
        IN /\ FLeq(c.min_price, c.max_price)
           /\ \A g \in c.start_idx..(c.end_idx - 1) :
                 /\ inside(low_f64(chart.kline_data[g + 1]))
                 /\ inside(high_f64(chart.kline_data[g + 1]))
                 /\ \A line \in {c.ma5, c.ma10, c.ma20} :
                       IsSome(ma_get(line, g)) => inside(Unwrap(ma_get(line, g)))

\* C14: when the raw range of the visible window is zero (one bar with
\* low = high = 100, say), the axis has a height: max_price > min_price, and
\* the price lies within it.
C14_FlatWindowHasHeight ==
    (ChartOut /\ chart.out.raw_min = chart.out.raw_max) =>
        /\ FLess(chart.out.min_price, chart.out.max_price)
        /\ FLeq(chart.out.min_price, chart.out.raw_min)
        /\ FLeq(chart.out.raw_max, chart.out.max_price)

\* C15: at every height the chart is drawn at, the number of grid prices is
\* clamp(chart_height, 2, 6).
C15_GridLevelCount ==
    ChartOut =>
        Len(chart.out.grid_prices) = Max(Min(chart.out.chart_height, 6), 2)

\* C16: the price of row 0 is max_price and the price of the last row is
\* min_price; the price falls strictly from each row to the next when
\* max_price > min_price; row 0 and the last row carry grid lines.
C16_RowPriceMapping ==
    ChartOut =>
        LET c == chart.out
            h == c.chart_height
        IN /\ c.price_lines[1].price_val = c.max_price
           /\ c.price_lines[h].price_val = c.min_price
           /\ FLess(c.min_price, c.max_price) =>
                 \A r \in 1..(h - 1) :
                     FLess(c.price_lines[r + 1].price_val, c.price_lines[r].price_val)
           /\ c.price_lines[1].labelled
           /\ c.price_lines[h].labelled

---------------------------------------------------------------------------
(* The claims about the threads, stated on SpecThreads.                    *)

\* C19: the requests to the provider are made off the thread that renders:
\* the UI loop is never waiting for a provider's answer between two frames.
C19_FetchOffUiThread == threads.ui_pc /= "fetch"

\* C20: the series, the pan offset, the cursor and the timeframe change
\* only in the step of the UI loop that applies an event, at most one event
\* between two render passes, and a render pass ends with the four fields
\* as they were when it began.
C20_MutationBetweenFrames ==
    [][ /\ Snapshot(app') /= Snapshot(app) =>
              /\ threads.ui_pc \in {"handle", "fetch"}
              /\ threads'.ui_pc = "top"
              /\ threads'.applied = 1
        /\ threads.ui_pc = "draw" => threads.frame = Some(Snapshot(app'))
      ]_vars

\* A render pass is in progress on 5-minute bars with the cursor on, and
\* the event thread has sent an event meanwhile.
C20_Witness ==
    /\ threads.ui_pc = "draw"
    /\ threads.queue /= << >>
    /\ app.timeframe = "Min5"
    /\ IsSome(app.kline_cursor)
    /\ threads.frame = Some(Snapshot(app))

---------------------------------------------------------------------------
(* The claims about degenerate inputs, the pan step, Esc and the cursor,   *)
(* stated on the event loop (Spec).                                        *)

\* The series is empty, or the area is too narrow for draw_kline_chart
\* (ui.rs 269, 288).
DegenerateInput == app.kline_data = << >> \/ saturating_sub(term_width, 2) < 15

\* C21: with an empty series or an area narrower than the minimum,
\* draw_kline_chart draws no candle and takes no slice of the series, an
\* empty series selects the window 0..0, cursor_kline answers with None or
\* with a bar of the series, visible_kline_count stays within the series,
\* and CursorLeft and CursorRight leave kline_cursor None or a usize.
C21_DegenerateInputs ==
    /\ [](DegenerateInput =>
            /\ ~draw_kline_chart(app, [width |-> term_width,
                                       height |-> MaxAreaHeight]).drawn
            /\ ~chart_drawn(app, term_width)
            /\ app.kline_data = << >> => Drawn.start_idx = 0 /\ Drawn.end_idx = 0
            /\ cursor_kline(app, term_width) \in
                   {None} \cup {Some(app.kline_data[i]) : i \in 1..Len(app.kline_data)}
            /\ visible_kline_count(app, term_width) \in 0..Len(app.kline_data))
    /\ [][(DegenerateInput /\ last_event' \in {"Left", "Right"}) =>
              app'.kline_cursor \in {None} \cup {Some(n) : n \in 0..MaxBars}]_vars

\* A first CursorLeft on a terminal too narrow for the chart, with bars in
\* the series.
C21_Witness ==
    /\ last_event = "Left"
    /\ prev_cursor = None
    /\ app.kline_data /= << >>
    /\ saturating_sub(term_width, 2) < 15
    /\ IsSome(app.kline_cursor)

\* C22: kline_offset is never negative and is a multiple of 5 in every
\* reachable state; PageUp adds exactly 5 to it or leaves it, PageDown
\* subtracts exactly 5 and floors at 0.
C22_PanStep ==
    /\ [](app.kline_offset >= 0 /\ app.kline_offset % 5 = 0)
    /\ [][ /\ last_event' = "PageUp" =>
                 app'.kline_offset \in {app.kline_offset, app.kline_offset + 5}
           /\ last_event' = "PageDown" =>
                 app'.kline_offset = Max(app.kline_offset - 5, 0) ]_vars

\* A PageUp has moved the window 5 bars towards the older bars.
C22_Witness ==
    /\ last_event = "PageUp"
    /\ app.kline_offset = 5
    /\ Len(app.kline_data) = MaxBars

C24_OnlyCursorKeysActivate ==
    [][ last_event' \notin {"Left", "Right"} =>
          app'.kline_cursor \in {app.kline_cursor, None} ]_vars

\* Enter has switched to the fullscreen view with the cursor on a bar.
C24_Witness ==
    /\ last_event = "Enter"
    /\ app.view_mode = "FullscreenChart"
    /\ IsSome(app.kline_cursor)
    /\ app.kline_data /= << >>

---------------------------------------------------------------------------
(* The claims about the series, the watchlist and the input modes, stated  *)
(* on the event loop (Spec).                                               *)

\* C25: whenever kline_data is empty the chart state is reset: kline_cursor
\* is None and kline_offset is 0.
C25_EmptySeriesResetsChart ==
    app.kline_data = << >> => app.kline_cursor = None /\ app.kline_offset = 0

\* C26: in every reachable state quotes is as long as watchlist, and a
\* quote that is present at index i is the quote of watchlist[i].
C26_QuotesAligned ==
    /\ Len(app.quotes) = Len(app.watchlist)
    /\ \A i \in 1..Len(app.quotes) :
           IsSome(app.quotes[i]) => Unwrap(app.quotes[i]).symbol = app.watchlist[i]

\* The first symbol has been deleted and the quote of the second one has
\* moved to index 0 with it.
C26_Witness ==
    /\ last_event = "D"
    /\ app.watchlist = <<SymHk>>
    /\ app.quotes = <<Some([symbol |-> SymHk])>>

\* C27: with a non-empty watchlist the highlighted index and active_index
\* are indices of watchlist in every reachable state, and Up on the first
\* entry goes to the last one, Down on the last entry to the first one.
C27_SelectionValid ==
    /\ [](app.watchlist /= << >> =>
            /\ highlighted_index(app) \in 0..(Len(app.watchlist) - 1)
            /\ app.active_index \in 0..(Len(app.watchlist) - 1))
    /\ [][ /\ (last_event' = "Up" /\ app.view_mode = "Normal") =>
                 highlighted_index(app') =
                     IF highlighted_index(app) = 0
                     THEN Len(app.watchlist) - 1
                     ELSE highlighted_index(app) - 1
           /\ (last_event' = "Down" /\ app.view_mode = "Normal") =>
                 highlighted_index(app') =
                     IF highlighted_index(app) = Len(app.watchlist) - 1
                     THEN 0
                     ELSE highlighted_index(app) + 1 ]_vars

\* Down on the last of two entries has wrapped to the first one, while the
\* second one is active.
C27_Witness ==
    /\ last_event = "Down"
    /\ app.view_mode = "Normal"
    /\ Len(app.watchlist) = 2
    /\ highlighted_index(app) = 0
    /\ app.active_index = 1

\* C28: 'd' never leaves the watchlist with less than one entry, and with
\* exactly one entry it leaves every field of the App value of the model
\* (watchlist, quotes, selection, active_index, series, offset, cursor and
\* the saved configuration) as it was, whatever the provider would answer.
C28_DeleteKeepsLastEntry ==
    [][ last_event' = "D" =>
          /\ Len(app'.watchlist) >= 1
          /\ Len(app.watchlist) = 1 => app' = app ]_vars

\* 'd' has been pressed in the normal view on a watchlist of one entry
\* whose series is on display with the cursor on a bar: a delete that
\* removes an entry leaves no cursor or no series.
C28_Witness ==
    /\ last_event = "D"
    /\ app.view_mode = "Normal"
    /\ Len(app.watchlist) = 1
    /\ app.kline_data /= << >>
    /\ IsSome(app.kline_cursor)

\* C29: a Tick changes the quotes only: kline_data, kline_offset,
\* kline_cursor, timeframe, active_index, the highlighted index, view_mode
\* and input_mode are as before it, in every input mode.
C29_TickRefreshesQuotesOnly ==
    [][ last_event' = "Tick" =>
          /\ Snapshot(app') = Snapshot(app)
          /\ app'.active_index = app.active_index
          /\ app'.watchlist_state = app.watchlist_state
          /\ app'.view_mode = app.view_mode
          /\ app'.input_mode = app.input_mode ]_vars

\* A Tick has arrived while the add-stock popup is open and the cursor is on
\* a bar, and the quote request for the first symbol has failed.
C29_Witness ==
    /\ last_event = "Tick"
    /\ app.input_mode = "AddStock"
    /\ IsSome(app.kline_cursor)
    /\ app.kline_data /= << >>
    /\ app.quotes[1] = None

\* C30: while input_mode is AddStock no key changes kline_data,
\* kline_offset, kline_cursor, timeframe, active_index, the highlighted
\* index, view_mode or should_quit; and Enter on a text that is empty, has
\* no known prefix or names a symbol already listed leaves watchlist and
\* quotes as they were and returns to Normal mode.
C30_AddStockLeavesChart ==
    [][ /\ last_event' \in {"AddEnter", "AddEsc", "AddBackspace", "AddChar"} =>
              /\ Snapshot(app') = Snapshot(app)
              /\ app'.active_index = app.active_index
              /\ app'.watchlist_state = app.watchlist_state
              /\ app'.view_mode = app.view_mode
              /\ app'.should_quit = app.should_quit
        /\ ( /\ last_event' = "AddEnter"
             /\ \/ add_symbol(app) = << >>
                \/ ~known_prefix(add_symbol(app))
                \/ contains(app.watchlist, add_symbol(app)) ) =>
              /\ app'.watchlist = app.watchlist
              /\ app'.quotes = app.quotes
              /\ app'.input_mode = "Normal" ]_vars

\* Enter on the text "h", which has no known prefix, has closed the popup
\* while the cursor is on a bar.
C30_Witness ==
    /\ last_event = "AddEnter"
    /\ app.input_buffer = <<"h">>
    /\ app.input_mode = "Normal"
    /\ IsSome(app.kline_cursor)
    /\ app.kline_data /= << >>

===========================================================================
